---- MODULE Spec2Model ----
(***************************************************************************)
(* PR-to-issue linking of storacha/project-agent:                          *)
(*   internal/parser/issue_refs.go   ParseIssueReferences, makeKey         *)
(*   internal/tasks/pr_linking.go    LinkPRToIssues, findBestSemanticMatch *)
(*   internal/similarity/client.go   CompareSimilarity                     *)
(*   internal/github/client.go       the board reader and writer           *)
(*                                                                         *)
(* Similarity scores and thresholds are float64 in the code; the model     *)
(* keeps them in hundredths (0.85 is 85), which preserves every            *)
(* comparison the code makes on the values that occur.                     *)
(***************************************************************************)
EXTENDS Integers, Sequences, FiniteSets, TLC

\* ------------------------------------------------------------------ bounds

\* Longest PR text, counted in issue mentions.
MaxMentions == 2
\* Number of issues on the project board.
MaxBoardItems == 2

\* ------------------------------------------------------- program constants

\* config.LoadFromEnv: DuplicateSimilarity default (0.85).
DefaultDuplicateSimilarity == 85
\* README "Only matches if similarity >= 0.95".
DocumentedPRThreshold == 95
\* findBestSemanticMatch: time.Sleep(200 * time.Millisecond).
ScorePauseMs == 200
\* LinkPRToIssues: time.Sleep(1 * time.Second) after each direct move.
MovePauseMs == 1000

\* Longest text, in mentions, that the parser is run on alone.
MaxParsedMentions == 3

\* Most open PRs in the repository that scan-open-prs scans.
MaxOpenPRs == 2
\* Issues of the sub-issue graph.
MaxGraphIssues == 2

\* The two invocations of LinkPRToIssues the model can run.
Procs == {1, 2}

\* The PR's repository (prOwner, prRepo), the default context of a reference.
PROwner == "acme"
PRRepo == "app"

\* ------------------------------------------------------------ text and parser

\* strings.ToLower on the names that occur.
ToLower(s) ==
    CASE s = "Acme" -> "acme"
      [] s = "Other" -> "other"
      [] OTHER -> s

\* Digit strings are sequences of decimal digits, as matched by (\d+).
RECURSIVE StripZeros(_)
StripZeros(d) ==
    IF Len(d) > 1 /\ Head(d) = 0 THEN StripZeros(Tail(d)) ELSE d

\* math.MaxInt64 = 9223372036854775807, digit by digit.
MaxInt64Digits == <<9,2,2,3,3,7,2,0,3,6,8,5,4,7,7,5,8,0,7>>

RECURSIVE DigitsGreater(_, _)
DigitsGreater(a, b) ==
    IF Len(a) = 0 THEN FALSE
    ELSE IF Head(a) # Head(b) THEN Head(a) > Head(b)
    ELSE DigitsGreater(Tail(a), Tail(b))

RECURSIVE DigitsValue(_, _)
DigitsValue(d, acc) ==
    IF Len(d) = 0 THEN acc ELSE DigitsValue(Tail(d), acc * 10 + Head(d))

\* Variant: the range error is dropped and the zero value used.
AtoiIgnoringRange(d) ==
    LET s == StripZeros(d)
        overflow == \/ Len(s) > Len(MaxInt64Digits)
                    \/ Len(s) = Len(MaxInt64Digits) /\ DigitsGreater(s, MaxInt64Digits)
    IN  [ok |-> TRUE, val |-> IF overflow THEN 0 ELSE DigitsValue(s, 0)]

\* strconv.Atoi on a digit string: a range error past MaxInt64, the value
\* otherwise (leading zeros do not count).
Atoi(d) ==
    LET s == StripZeros(d)
        overflow == \/ Len(s) > Len(MaxInt64Digits)
                    \/ Len(s) = Len(MaxInt64Digits) /\ DigitsGreater(s, MaxInt64Digits)
    IN  IF overflow THEN [ok |-> FALSE, val |-> 0]
        ELSE [ok |-> TRUE, val |-> DigitsValue(s, 0)]

\* Variant: the key keeps the case of owner and repo.
makeKeyCaseSensitive(owner, repo, number) == <<owner, repo, number>>

\* makeKey: lowercased owner, "/", lowercased repo, "#", number.  Owner and
\* repo never contain "/" or "#", so the string is the triple.
makeKey(owner, repo, number) == <<ToLower(owner), ToLower(repo), number>>

\* A PR text (title + "\n" + body) is the sequence of issue mentions in it,
\* each in one of the four written forms:
\*   keyword  "fixes #N"          simple  "#N"
\*   cross    "owner/repo#N"      url     "https://github.com/owner/repo/issues/N"
Mention(form, owner, repo, digits) ==
    [form |-> form, owner |-> owner, repo |-> repo, digits |-> digits]

\* FindAllStringSubmatch of each pattern: the mentions it matches, in text
\* order.  "fixes #N" holds a "#N" after whitespace, so simplePattern matches
\* it as well; in "owner/repo#N" the "#" follows a word character and \B
\* fails; a URL holds no "#".
keywordPattern(text) == SelectSeq(text, LAMBDA m : m.form = "keyword")
crossRepoPattern(text) == SelectSeq(text, LAMBDA m : m.form = "cross")
urlPattern(text) == SelectSeq(text, LAMBDA m : m.form = "url")
simplePattern(text) == SelectSeq(text, LAMBDA m : m.form \in {"keyword", "simple"})

IssueReference(owner, repo, number, explicit) ==
    [Owner |-> owner, Repo |-> repo, Number |-> number, IsExplicit |-> explicit]

\* refs[key] = ref on a Go map.
MapPut(m, k, v) == [x \in (DOMAIN m) \cup {k} |-> IF x = k THEN v ELSE m[x]]

\* The keyword loop: writes without looking.
RECURSIVE ScanKeyword(_, _, _, _)
ScanKeyword(matches, refs, defaultOwner, defaultRepo) ==
    IF Len(matches) = 0 THEN refs
    ELSE LET num == Atoi(Head(matches).digits)
             key == makeKey(defaultOwner, defaultRepo, num.val)
             next == IF num.ok
                     THEN MapPut(refs, key,
                                 IssueReference(defaultOwner, defaultRepo, num.val, TRUE))
                     ELSE refs
         IN  ScanKeyword(Tail(matches), next, defaultOwner, defaultRepo)

\* The cross-repo loop and the URL loop: owner and repo from the match,
\* inserted only when the key is absent.
RECURSIVE ScanQualified(_, _)
ScanQualified(matches, refs) ==
    IF Len(matches) = 0 THEN refs
    ELSE LET m == Head(matches)
             num == Atoi(m.digits)
             key == makeKey(m.owner, m.repo, num.val)
             next == IF num.ok /\ key \notin DOMAIN refs
                     THEN MapPut(refs, key, IssueReference(m.owner, m.repo, num.val, FALSE))
                     ELSE refs
         IN  ScanQualified(Tail(matches), next)

\* Variant: the simple loop writes without looking.
RECURSIVE ScanSimpleOverwriting(_, _, _, _)
ScanSimpleOverwriting(matches, refs, defaultOwner, defaultRepo) ==
    IF Len(matches) = 0 THEN refs
    ELSE LET num == Atoi(Head(matches).digits)
             key == makeKey(defaultOwner, defaultRepo, num.val)
             next == IF num.ok
                     THEN MapPut(refs, key,
                                 IssueReference(defaultOwner, defaultRepo, num.val, FALSE))
                     ELSE refs
         IN  ScanSimpleOverwriting(Tail(matches), next, defaultOwner, defaultRepo)

\* The simple loop: default owner and repo, inserted only when absent.
RECURSIVE ScanSimple(_, _, _, _)
ScanSimple(matches, refs, defaultOwner, defaultRepo) ==
    IF Len(matches) = 0 THEN refs
    ELSE LET num == Atoi(Head(matches).digits)
             key == makeKey(defaultOwner, defaultRepo, num.val)
             next == IF num.ok /\ key \notin DOMAIN refs
                     THEN MapPut(refs, key,
                                 IssueReference(defaultOwner, defaultRepo, num.val, FALSE))
                     ELSE refs
         IN  ScanSimple(Tail(matches), next, defaultOwner, defaultRepo)

\* The map ParseIssueReferences has built when the four loops are done.
ParsedRefs(text, defaultOwner, defaultRepo) ==
    LET r1 == ScanKeyword(keywordPattern(text), <<>>, defaultOwner, defaultRepo)
        r2 == ScanQualified(crossRepoPattern(text), r1)
        r3 == ScanQualified(urlPattern(text), r2)
    IN  ScanSimple(simplePattern(text), r3, defaultOwner, defaultRepo)

\* "Convert map to slice": ranging over a Go map visits the entries in an
\* unspecified order, so the slice is any arrangement of the map's values.
ParseIssueReferences(text, defaultOwner, defaultRepo) ==
    LET refs == ParsedRefs(text, defaultOwner, defaultRepo)
        keys == DOMAIN refs
        n == Cardinality(keys)
    IN  { [i \in 1..n |-> refs[o[i]]] :
            o \in { f \in [1..n -> keys] : \A i, j \in 1..n : f[i] = f[j] => i = j } }

\* ------------------------------------------------------------------ scorer

\* What parseSimilarityFromResponse looks for in the lowercased response:
\* the "similar": true marker and the score literals.  A response text is
\* the set of these substrings it contains; "0.95" contains "0.9" and "0.85"
\* contains "0.8".
ResponseMarkers == {"similar:true", "0.9", "0.95", "1.0", "0.85", "0.8"}

ResponseTexts ==
    { r \in SUBSET ResponseMarkers :
        /\ "0.95" \in r => "0.9" \in r
        /\ "0.85" \in r => "0.8" \in r }

parseSimilarityFromResponse(response) ==
    IF "similar:true" \in response
    THEN IF {"0.9", "0.95", "1.0"} \cap response # {} THEN 90
         ELSE IF {"0.85", "0.8"} \cap response # {} THEN 85
         ELSE 90
    ELSE 0

\* CompareSimilarity: an error (the generation failed, or no candidates in
\* the response), or the score parsed from the response.
CompareSimilarity ==
    {[ok |-> FALSE, score |-> 0]}
        \cup { [ok |-> TRUE, score |-> parseSimilarityFromResponse(r)] : r \in ResponseTexts }

\* ------------------------------------------------------------------- board

\* The k-th item of the project, in the order the board lists its items.
ItemAt(k) ==
    IF k % 2 = 1 THEN <<"acme", "app", 7 + (k - 1) \div 2>>
    ELSE <<"other", "lib", 7 + (k - 2) \div 2>>

BoardItems == [k \in 1..MaxBoardItems |-> ItemAt(k)]
ItemSet == { BoardItems[k] : k \in 1..MaxBoardItems }

\* The statuses an item starts in, and the one MoveToPRReview sets.
InitStatuses == {"Backlog", "In Progress", "Sprint Backlog"}
PRReview == "PR Review"
\* The statuses the replay starts from: one the candidate fetch keeps, one
\* it drops.
ReplayStatuses == {"Backlog", "Sprint Backlog"}

\* targetStatuses of LinkPRToIssues.
TargetStatuses == {"In Progress", "Sprint Backlog"}

\* getFilteredIssues: the items whose status is in statusMap, in board order.
getFilteredIssues(b, statusMap) ==
    SelectSeq(BoardItems, LAMBDA i : b[i] \in statusMap)

\* MoveToPRReview: the status field of the item is set when the mutation
\* succeeds (ok); on an error nothing is written.
MoveToPRReview(b, issue, ok) ==
    IF ok /\ issue \in DOMAIN b THEN [b EXCEPT ![issue] = PRReview] ELSE b

\* LinkPRToIssue: one "Linked to PR owner/repo#n" comment on the issue when
\* the mutation succeeds.
LinkPRToIssue(c, issue, ok) ==
    IF ok /\ issue \in DOMAIN c THEN [c EXCEPT ![issue] = @ + 1] ELSE c

\* --------------------------------------------------------------- PR inputs

Mentions ==
    { Mention("keyword", "", "", <<7>>),
      Mention("cross", "Other", "lib", <<7>>),
      Mention("simple", "", "", <<5>>) }

RECURSIVE SeqsUpTo(_, _)
SeqsUpTo(S, n) ==
    IF n = 0 THEN {<<>>}
    ELSE LET shorter == SeqsUpTo(S, n - 1)
         IN  shorter \cup { Append(s, x) : s \in { t \in shorter : Len(t) = n - 1 }, x \in S }

\* The first of the four strategies whose pattern matches a mention.
FirstStrategy(m) ==
    CASE m.form = "keyword" -> 1
      [] m.form = "cross" -> 2
      [] m.form = "url" -> 3
      [] m.form = "simple" -> 4

\* The texts of the invocations: each mention at most once, in the order of
\* the strategies.  The mentions name different issues, so neither a
\* repetition nor another order changes the map the parser builds; texts
\* with repeated and reordered mentions are the parser texts below.
PRTexts ==
    { t \in SeqsUpTo(Mentions, MaxMentions) :
        \A i, j \in DOMAIN t : i < j => FirstStrategy(t[i]) < FirstStrategy(t[j]) }

\* math.MaxInt64 + 1 = 9223372036854775808: digits that \d+ matches and
\* strconv.Atoi rejects.
OverflowDigits == <<9,2,2,3,3,7,2,0,3,6,8,5,4,7,7,5,8,0,8>>

\* The mentions of the texts the parser is run on alone: every written form,
\* the PR's repository under another case, another repository, the numbers
\* 7, 07, 0 and one past int64.
ParserMentions ==
    { Mention("keyword", "", "", <<7>>),
      Mention("keyword", "", "", OverflowDigits),
      Mention("simple", "", "", <<7>>),
      Mention("simple", "", "", <<0, 7>>),
      Mention("simple", "", "", <<0>>),
      Mention("simple", "", "", OverflowDigits),
      Mention("cross", "Acme", "app", <<7>>),
      Mention("cross", "other", "lib", <<7>>),
      Mention("url", "acme", "app", <<7>>),
      Mention("url", "Other", "lib", <<7>>) }

ParserTexts == SeqsUpTo(ParserMentions, MaxParsedMentions)

\* cfg.DuplicateSimilarity: the default, or whatever DUPLICATE_SIMILARITY
\* parses to.
Thresholds == {0, DefaultDuplicateSimilarity, DocumentedPRThreshold}

Configs == [DryRun : BOOLEAN, DuplicateSimilarity : Thresholds]

\* ------------------------------------------------------------------- state

VARIABLES
    scenario,   \* "single": one invocation; "replay": a dry run, then the same
                \* invocation without dry-run against the same responses;
                \* "parse": step 1 alone; "link-pr" and "scan": the commands'
                \* main functions; "concurrent": two invocations at once;
                \* "rerun": the invocation twice in a row; "reorder": the
                \* invocation twice on the same board; "subissues":
                \* GetSubIssuesRecursive
    prText,     \* the PR's title and body
    board,      \* status of every project item
    comments,   \* number of "Linked to PR" comments on every project item
    run,        \* per invocation: the locals of LinkPRToIssues and where it is
    trace,      \* per invocation: the external calls made so far, in order
    cmd,        \* the command (link-pr, scan-open-prs) around the invocations
    sub         \* GetSubIssuesRecursive: its locals and its call stack

vars == <<scenario, prText, board, comments, run, trace, cmd, sub>>

NoIssue == <<"", "", 0>>

\* One external call (or pause) as it appears in a trace.
Event(op, issue, ok, val) == [op |-> op, issue |-> issue, ok |-> ok, val |-> val]

EmptyReport ==
    [DirectReferencesFound |-> 0, IssuesLinkedDirect |-> 0, SemanticMatchFound |-> FALSE,
     IssueLinkedSemantic |-> 0, IssuesMovedToPRReview |-> 0, Errors |-> <<>>]

\* The locals of LinkPRToIssues on entry.  bestMatch and semanticMatch are
\* pointers: <<>> is nil, <<i>> points to issue i.
NewRun(cfg) ==
    [pc |-> "Extract", cfg |-> cfg, refs |-> <<>>, refIdx |-> 1, matchedIssues |-> <<>>,
     issues |-> <<>>, candIdx |-> 1, bestMatch |-> <<>>, bestSimilarity |-> 0,
     semanticMatch |-> <<>>, applyIdx |-> 1, report |-> EmptyReport, err |-> FALSE]

TypeOK ==
    /\ scenario \in {"single", "replay", "parse", "link-pr", "scan", "concurrent",
                      "rerun", "reorder", "subissues"}
    /\ prText \in PRTexts \cup ParserTexts
    /\ cmd.pc \in {"None", "Gate", "FetchPRs", "NextPR", "Link", "Exited", "First", "Second"}
    /\ cmd.exit \in {-1, 0, 1}
    /\ board \in [ItemSet -> InitStatuses \cup {PRReview}]
    /\ comments \in [ItemSet -> Nat]
    /\ \A p \in Procs :
        /\ run[p].pc \in {"Extract", "Resolve", "FetchCandidates", "Score", "MoveDirect",
                          "MoveSemantic", "LinkSemantic", "DryRunLog", "Done"}
        /\ run[p].cfg \in Configs
        /\ Len(run[p].bestMatch) <= 1
        /\ Len(run[p].semanticMatch) <= 1

\* No command: LinkPRToIssues is called as it stands.  userMappings is a
\* pointer to the set of mapped GitHub users (<<>> is the nil map), exit is
\* the exit status (-1 while running), prs the open PRs still to process,
\* passed the PRs handed to LinkPRToIssues so far, board0 the board as
\* invocation 1 found it.
NoCmd ==
    [pc |-> "None", prAuthor |-> "", userMappings |-> <<{}>>, exit |-> -1,
     skipped |-> FALSE, prs |-> <<>>, passed |-> <<>>, fetchFailed |-> FALSE,
     TotalPRsScanned |-> 0, TotalIssuesLinked |-> 0, TotalIssuesMoved |-> 0,
     Errors |-> <<>>, board0 |-> <<>>]

\* GetSubIssuesRecursive not called.
NoSub ==
    [pc |-> "None", children |-> <<>>, arg |-> NoIssue, stack |-> <<>>, visited |-> {},
     allSubIssues |-> <<>>, queried |-> <<>>, err |-> FALSE]

InitCommon ==
    /\ prText \in PRTexts
    /\ comments = [i \in ItemSet |-> 0]
    /\ trace = [p \in Procs |-> <<>>]
    /\ sub = NoSub

\* One invocation, dry-run or not.
Init ==
    /\ scenario = "single"
    /\ InitCommon
    /\ cmd = NoCmd
    /\ board \in [ItemSet -> InitStatuses]
    /\ \E cfg \in Configs : run = [p \in Procs |-> NewRun(cfg)]

\* A dry run followed by the same invocation with DRY_RUN unset.
InitReplay ==
    /\ scenario = "replay"
    /\ InitCommon
    /\ cmd = NoCmd
    /\ board \in [ItemSet -> ReplayStatuses]
    /\ \E t \in Thresholds :
        run = [p \in Procs |->
                 NewRun([DryRun |-> (p = 1), DuplicateSimilarity |-> t])]

\* The reference extractor alone, on every parser text.
InitParse ==
    /\ scenario = "parse"
    /\ prText \in ParserTexts
    /\ comments = [i \in ItemSet |-> 0]
    /\ trace = [p \in Procs |-> <<>>]
    /\ board = [i \in ItemSet |-> "Backlog"]
    /\ cmd = NoCmd
    /\ sub = NoSub
    /\ run = [p \in Procs |->
                NewRun([DryRun |-> TRUE, DuplicateSimilarity |-> DefaultDuplicateSimilarity])]

\* Variant: an invocation waits until the other one has returned.
CanStartOneAtATime(p) == p = 1 \/ run[1].pc = "Done"

\* Invocation 1 starts at once, or when its command calls it.  Invocation 2
\* exists in the replay and the rerun, where it starts when invocation 1 has
\* returned, in the reorder, where it starts on the restored board, and in
\* the concurrent scenario, where it starts at any time.
CanStart(p) ==
    CASE scenario \in {"link-pr", "scan"} -> p = 1 /\ cmd.pc = "Link"
      [] scenario \in {"replay", "rerun"} -> p = 1 \/ run[1].pc = "Done"
      [] scenario = "reorder" -> p = 1 \/ cmd.pc = "Second"
      [] scenario = "concurrent" -> TRUE
      [] OTHER -> p = 1

\* In the replay, the rerun and the reorder the board and the scorer answer
\* a call as they answered the same call of the other invocation.
SameResponse(p, op, issue, ok, val) ==
    scenario \in {"replay", "rerun", "reorder"} =>
        \A q \in Procs \ {p} : \A i \in DOMAIN trace[q] :
            (trace[q][i].op = op /\ trace[q][i].issue = issue)
                => (trace[q][i].ok = ok /\ trace[q][i].val = val)

\* ---------------------------------------------------- decisions of the code

\* Variant: inference only when no reference was extracted at all.
InferNeededOnlyWithoutRefs(r) == Len(r.refs) = 0

\* Variant: a dry run skips the inference.
InferNeededAlways(r) == TRUE
InferNeededUnlessDryRun(r) == Len(r.matchedIssues) = 0 /\ ~r.cfg.DryRun

\* Step 3: "if len(matchedIssues) == 0".
InferNeeded(r) == Len(r.matchedIssues) = 0

\* Variant: Step 4 without the dry-run check.
MutationsAlwaysEnabled(r) == TRUE

\* Step 4: "if !cfg.DryRun".
MutationsEnabled(r) == ~r.cfg.DryRun

\* The threshold LinkPRToIssues hands to findBestSemanticMatch.
SemanticThreshold(cfg) == cfg.DuplicateSimilarity

\* Variant: the best score wins whatever the threshold.
IsBetterIgnoringThreshold(similarityScore, bestSimilarity, threshold) ==
    similarityScore > bestSimilarity

\* findBestSemanticMatch: "similarityScore > bestSimilarity &&
\* similarityScore >= threshold".
IsBetter(similarityScore, bestSimilarity, threshold) ==
    similarityScore > bestSimilarity /\ similarityScore >= threshold

\* Variant: a failed move is counted as a move as well.
ReportAfterMoveCountingFailures(report, issue, ok) ==
    IF ok THEN [report EXCEPT !.IssuesMovedToPRReview = @ + 1]
    ELSE [report EXCEPT !.IssuesMovedToPRReview = @ + 1,
                        !.Errors = Append(@, <<"Failed to move issue to PR Review", issue[3]>>)]

\* Variant: the direct path comments on the issue as well.
LinksDirectReferencesAlways == TRUE

\* "No need to create link - GitHub automatically links when PR references
\* issue": the direct loop makes no LinkPRToIssue call.
LinksDirectReferences == FALSE

\* The report after a MoveToPRReview call (direct or semantic).
ReportAfterMove(report, issue, ok) ==
    IF ok THEN [report EXCEPT !.IssuesMovedToPRReview = @ + 1]
    ELSE [report EXCEPT !.Errors = Append(@, <<"Failed to move issue to PR Review", issue[3]>>)]

\* Variant: a failed comment takes the move back out of the count.
ReportAfterLinkRollingBack(report, issue, ok) ==
    IF ok THEN report
    ELSE [report EXCEPT !.IssuesMovedToPRReview = 0,
                        !.Errors = Append(@, <<"Failed to link PR to issue", issue[3]>>)]

\* Variant: a failed comment takes the semantic match back out of the report.
ReportAfterLinkUndoingMatch(report, issue, ok) ==
    IF ok THEN report
    ELSE [report EXCEPT !.SemanticMatchFound = FALSE, !.IssueLinkedSemantic = 0,
                        !.Errors = Append(@, <<"Failed to link PR to issue", issue[3]>>)]

\* The report after the LinkPRToIssue call.
ReportAfterLink(report, issue, ok) ==
    IF ok THEN report
    ELSE [report EXCEPT !.Errors = Append(@, <<"Failed to link PR to issue", issue[3]>>)]

\* Where Step 4 starts.
ApplyEntry(r) ==
    IF MutationsEnabled(r)
    THEN IF Len(r.matchedIssues) > 0 THEN "MoveDirect"
         ELSE IF r.semanticMatch # <<>> THEN "MoveSemantic"
         ELSE "Done"
    ELSE "DryRunLog"

\* Variant: a failed candidate fetch is treated as an empty candidate list.
CandidateFetchFailedSwallowed(r) == [r EXCEPT !.pc = ApplyEntry(r)]

\* "return report, fmt.Errorf(...)" when the candidate fetch fails.
CandidateFetchFailed(r) == [r EXCEPT !.pc = "Done", !.err = TRUE]

\* Where the run goes when the Step 2 loop is over.
AfterResolve(r) == IF InferNeeded(r) THEN "FetchCandidates" ELSE ApplyEntry(r)

\* Variant: the semantic link is counted whether or not a match came back.
SelectionDoneCountingAlways(r) ==
    LET r1 == IF r.bestMatch # <<>>
              THEN [r EXCEPT !.semanticMatch = r.bestMatch,
                             !.report.SemanticMatchFound = TRUE,
                             !.report.IssueLinkedSemantic = @ + 1]
              ELSE [r EXCEPT !.report.IssueLinkedSemantic = @ + 1]
    IN  [r1 EXCEPT !.pc = ApplyEntry(r1)]

\* Lines 77-89 with findBestSemanticMatch returned (its error is always nil).
SelectionDone(r) ==
    LET r1 == IF r.bestMatch # <<>>
              THEN [r EXCEPT !.semanticMatch = r.bestMatch,
                             !.report.SemanticMatchFound = TRUE,
                             !.report.IssueLinkedSemantic = @ + 1]
              ELSE r
    IN  [r1 EXCEPT !.pc = ApplyEntry(r1)]

\* Variant: a reference that cannot be fetched is reported as an error.
AfterGetIssueRecordingError(r, res) ==
    IF res.ok
    THEN [r EXCEPT !.matchedIssues = Append(@, res.issue),
                   !.report.IssuesLinkedDirect = @ + 1]
    ELSE [r EXCEPT !.report.Errors = Append(@, <<"Issue not in project", 0>>)]

\* Variant: only the first reference that resolves is kept.
AfterGetIssueKeepingFirstOnly(r, res) ==
    IF res.ok /\ r.matchedIssues = <<>>
    THEN [r EXCEPT !.matchedIssues = Append(@, res.issue),
                   !.report.IssuesLinkedDirect = @ + 1]
    ELSE r

\* Step 2, the body of the loop with GetIssueByNumber returned: an error
\* is logged and the reference skipped ("continue"); an issue is appended
\* to matchedIssues and counted.
AfterGetIssue(r, res) ==
    IF res.ok
    THEN [r EXCEPT !.matchedIssues = Append(@, res.issue),
                   !.report.IssuesLinkedDirect = @ + 1]
    ELSE r

\* Variant: a scorer error ends the selection ("return nil, 0, err") and is
\* reported.
AfterCompareAbortingOnError(r, issue, res) ==
    IF ~res.ok
    THEN [r EXCEPT !.candIdx = Len(r.issues), !.bestMatch = <<>>,
                   !.report.Errors = Append(@, <<"Semantic matching failed", 0>>)]
    ELSE IF IsBetter(res.score, r.bestSimilarity, SemanticThreshold(r.cfg))
    THEN [r EXCEPT !.bestSimilarity = res.score, !.bestMatch = <<issue>>]
    ELSE r

\* Variant: a scorer error is retried for the same candidate.
AfterCompareRetryingOnError(r, issue, res) ==
    IF ~res.ok
    THEN [r EXCEPT !.candIdx = @ - 1]
    ELSE IF IsBetter(res.score, r.bestSimilarity, SemanticThreshold(r.cfg))
    THEN [r EXCEPT !.bestSimilarity = res.score, !.bestMatch = <<issue>>]
    ELSE r

\* findBestSemanticMatch, the body of the loop with CompareSimilarity
\* returned: an error is logged and the candidate skipped ("continue"); a
\* better score replaces the best.
AfterCompare(r, issue, res) ==
    IF res.ok /\ IsBetter(res.score, r.bestSimilarity, SemanticThreshold(r.cfg))
    THEN [r EXCEPT !.bestSimilarity = res.score, !.bestMatch = <<issue>>]
    ELSE r

\* ------------------------------------------------------------ board reader

\* GetIssueByNumber: the issue with its project item, or an error: the query
\* failed, or the issue is not an item of the project.  The repository is
\* looked up without regard to case.
GetIssueByNumber(owner, repo, number) ==
    LET id == <<ToLower(owner), ToLower(repo), number>>
    IN  {[ok |-> FALSE, issue |-> NoIssue]}
            \cup (IF id \in ItemSet THEN {[ok |-> TRUE, issue |-> id]} ELSE {})

\* GetIssuesByStatuses: the filtered items, or the error of a failed query.
GetIssuesByStatuses(b, statuses) ==
    {[ok |-> FALSE, issues |-> <<>>], [ok |-> TRUE, issues |-> getFilteredIssues(b, statuses)]}

\* ----------------------------------------------------------------- actions

SetRun(p, r) == run' = [run EXCEPT ![p] = r]
Log(p, events) == trace' = [trace EXCEPT ![p] = @ \o events]

\* Step 1: parse the references and count them.
Extract(p) ==
    /\ run[p].pc = "Extract"
    /\ CanStart(p)
    /\ \E refs \in ParseIssueReferences(prText, PROwner, PRRepo) :
        LET r1 == [run[p] EXCEPT !.refs = refs,
                                 !.report.DirectReferencesFound = Len(refs)]
        IN  SetRun(p, [r1 EXCEPT !.pc = IF Len(refs) > 0 THEN "Resolve"
                                        ELSE AfterResolve(r1)])
    /\ UNCHANGED <<cmd, sub, scenario, prText, board, comments, trace>>

\* Step 2, one iteration: fetch the referenced issue; keep it when it is on
\* the board.
Resolve(p) ==
    /\ run[p].pc = "Resolve"
    /\ LET r == run[p]
           ref == r.refs[r.refIdx]
           id == makeKey(ref.Owner, ref.Repo, ref.Number)
       IN  \E res \in GetIssueByNumber(ref.Owner, ref.Repo, ref.Number) :
            /\ SameResponse(p, "GetIssueByNumber", id, res.ok, 0)
            /\ LET r1 == AfterGetIssue(r, res)
                   r2 == [r1 EXCEPT !.refIdx = @ + 1]
               IN  SetRun(p, [r2 EXCEPT !.pc = IF r2.refIdx <= Len(r2.refs) THEN "Resolve"
                                               ELSE AfterResolve(r2)])
            /\ Log(p, <<Event("GetIssueByNumber", id, res.ok, 0)>>)
    /\ UNCHANGED <<cmd, sub, scenario, prText, board, comments>>

\* Step 3: fetch the candidates; a failure ends the run with an error.
FetchCandidates(p) ==
    /\ run[p].pc = "FetchCandidates"
    /\ \E res \in GetIssuesByStatuses(board, TargetStatuses) :
        /\ SameResponse(p, "GetIssuesByStatuses", NoIssue, res.ok, 0)
        /\ LET r == run[p]
               r1 == [r EXCEPT !.issues = res.issues]
           IN  SetRun(p, IF ~res.ok THEN CandidateFetchFailed(r)
                         ELSE IF Len(res.issues) > 0 THEN [r1 EXCEPT !.pc = "Score"]
                         ELSE [r1 EXCEPT !.pc = ApplyEntry(r1)])
        /\ Log(p, <<Event("GetIssuesByStatuses", NoIssue, res.ok, 0)>>)
    /\ UNCHANGED <<cmd, sub, scenario, prText, board, comments>>

\* findBestSemanticMatch, one iteration: score the candidate, keep it when
\* it is better, pause; an error skips the rest of the iteration.  After the
\* last candidate the selection returns to LinkPRToIssues.
Score(p) ==
    /\ run[p].pc = "Score"
    /\ LET r == run[p]
           issue == r.issues[r.candIdx]
       IN  \E res \in CompareSimilarity :
            /\ SameResponse(p, "CompareSimilarity", issue, res.ok, res.score)
            /\ LET r1 == AfterCompare(r, issue, res)
                   r2 == [r1 EXCEPT !.candIdx = @ + 1]
               IN  SetRun(p, IF r2.candIdx <= Len(r2.issues) THEN r2 ELSE SelectionDone(r2))
            /\ Log(p, <<Event("CompareSimilarity", issue, res.ok, res.score)>>
                        \o (IF res.ok THEN <<Event("Sleep", NoIssue, TRUE, ScorePauseMs)>>
                            ELSE <<>>))
    /\ UNCHANGED <<cmd, sub, scenario, prText, board, comments>>

\* Step 4, direct references, one iteration: move the issue, pause.
MoveDirect(p) ==
    /\ run[p].pc = "MoveDirect"
    /\ LET r == run[p]
           issue == r.matchedIssues[r.applyIdx]
       IN  \E ok \in BOOLEAN :
            /\ SameResponse(p, "MoveToPRReview", issue, ok, 0)
            /\ board' = MoveToPRReview(board, issue, ok)
            /\ LET r1 == [r EXCEPT !.report = ReportAfterMove(@, issue, ok),
                                   !.applyIdx = @ + 1]
               IN  SetRun(p, [r1 EXCEPT !.pc =
                                IF r1.applyIdx <= Len(r1.matchedIssues) THEN "MoveDirect"
                                ELSE IF r1.semanticMatch # <<>> THEN "MoveSemantic"
                                ELSE "Done"])
            /\ comments' = IF LinksDirectReferences
                           THEN LinkPRToIssue(comments, issue, TRUE) ELSE comments
            /\ Log(p, <<Event("MoveToPRReview", issue, ok, 0)>>
                      \o (IF LinksDirectReferences
                          THEN <<Event("LinkPRToIssue", issue, TRUE, 0)>> ELSE <<>>)
                      \o <<Event("Sleep", NoIssue, TRUE, MovePauseMs)>>)
    /\ UNCHANGED <<cmd, sub, scenario, prText>>

\* Step 4, semantic match: move the issue.
MoveSemantic(p) ==
    /\ run[p].pc = "MoveSemantic"
    /\ LET r == run[p]
           issue == r.semanticMatch[1]
       IN  \E ok \in BOOLEAN :
            /\ SameResponse(p, "MoveToPRReview", issue, ok, 0)
            /\ board' = MoveToPRReview(board, issue, ok)
            /\ SetRun(p, [r EXCEPT !.report = ReportAfterMove(@, issue, ok),
                                   !.pc = "LinkSemantic"])
            /\ Log(p, <<Event("MoveToPRReview", issue, ok, 0)>>)
    /\ UNCHANGED <<cmd, sub, scenario, prText, comments>>

\* Step 4, semantic match: comment on the issue, then return the report.
LinkSemantic(p) ==
    /\ run[p].pc = "LinkSemantic"
    /\ LET r == run[p]
           issue == r.semanticMatch[1]
       IN  \E ok \in BOOLEAN :
            /\ SameResponse(p, "LinkPRToIssue", issue, ok, 0)
            /\ comments' = LinkPRToIssue(comments, issue, ok)
            /\ SetRun(p, [r EXCEPT !.report = ReportAfterLink(@, issue, ok),
                                   !.pc = "Done"])
            /\ Log(p, <<Event("LinkPRToIssue", issue, ok, 0)>>)
    /\ UNCHANGED <<cmd, sub, scenario, prText, board>>

\* Step 4 in a dry run: log what would be moved, then return the report.
DryRunLog(p) ==
    /\ run[p].pc = "DryRunLog"
    /\ LET r == run[p]
       IN  /\ SetRun(p, [r EXCEPT !.pc = "Done"])
           /\ Log(p, [i \in 1..Len(r.matchedIssues) |->
                         Event("WouldMove", r.matchedIssues[i], TRUE, 0)]
                     \o (IF r.semanticMatch # <<>>
                         THEN <<Event("WouldMove", r.semanticMatch[1], TRUE, 0)>>
                         ELSE <<>>))
    /\ UNCHANGED <<cmd, sub, scenario, prText, board, comments>>

Next ==
    \E p \in Procs :
        \/ Extract(p)
        \/ Resolve(p)
        \/ FetchCandidates(p)
        \/ Score(p)
        \/ MoveDirect(p)
        \/ MoveSemantic(p)
        \/ LinkSemantic(p)
        \/ DryRunLog(p)

Spec == Init /\ [][Next]_vars

\* One invocation whose external calls all return, a result or an error:
\* LinkPRToIssues is sequential code without a wait of its own, so that the
\* step it is at is taken.
InitLive ==
    /\ scenario = "single"
    /\ InitCommon
    /\ cmd = NoCmd
    /\ board \in [ItemSet -> ReplayStatuses]
    /\ \E d \in BOOLEAN :
          run = [p \in Procs |->
                   NewRun([DryRun |-> d, DuplicateSimilarity |-> DefaultDuplicateSimilarity])]

SpecLive == InitLive /\ [][Next]_vars /\ WF_vars(Next)

SpecReplay == InitReplay /\ [][Next]_vars

\* Step 1 of one invocation and nothing after it.
NextParse == Extract(1)

SpecParse == InitParse /\ [][NextParse]_vars

\* ------------------------------------------------------ the link-pr command

\* PR_AUTHOR: unset, a mapped team member, somebody else.
Authors == {"", "alice", "mallory"}

\* USER_MAPPINGS: unset, JSON null, an empty object, an object with alice.
UserMappingsEnv == {"", "null", "{}", "{alice}"}

\* LoadFromEnv: UserMappings is make(map[string]string) by default;
\* json.Unmarshal of a set USER_MAPPINGS writes it, and JSON null makes
\* the map nil.
LoadUserMappings(env) ==
    CASE env = "" -> <<{}>>
      [] env = "null" -> <<>>
      [] env = "{}" -> <<{}>>
      [] env = "{alice}" -> <<{"alice"}>>

\* _, found := cfg.UserMappings[prAuthor] (a nil map holds nothing).
Found(userMappings, author) == userMappings # <<>> /\ author \in userMappings[1]

\* main of link-pr, the test of lines 231-232: the PR is skipped.
IsExternalContributor(c) ==
    c.prAuthor # "" /\ c.userMappings # <<>> /\ ~Found(c.userMappings, c.prAuthor)

\* main of link-pr after LinkPRToIssues: log.Fatalf on its error,
\* os.Exit(1) when the report holds error strings, a normal return otherwise.
ExitStatus(r) ==
    IF r.err THEN 1
    ELSE IF Len(r.report.Errors) > 0 THEN 1
    ELSE 0

\* link-pr with a valid configuration, PR_REPO and PR_NUMBER.
InitLinkPR ==
    /\ scenario = "link-pr"
    /\ InitCommon
    /\ board \in [ItemSet -> ReplayStatuses]
    /\ \E a \in Authors, env \in UserMappingsEnv :
          cmd = [NoCmd EXCEPT !.pc = "Gate", !.prAuthor = a,
                              !.userMappings = LoadUserMappings(env)]
    /\ \E d \in BOOLEAN :
          run = [p \in Procs |->
                   NewRun([DryRun |-> d, DuplicateSimilarity |-> DefaultDuplicateSimilarity])]

\* main of link-pr up to the call of LinkPRToIssues: skip the PR of an
\* external contributor and return, or go on.
LinkPRGate ==
    /\ scenario = "link-pr"
    /\ cmd.pc = "Gate"
    /\ cmd' = IF IsExternalContributor(cmd)
              THEN [cmd EXCEPT !.pc = "Exited", !.skipped = TRUE, !.exit = 0]
              ELSE [cmd EXCEPT !.pc = "Link"]
    /\ UNCHANGED <<sub, scenario, prText, board, comments, run, trace>>

\* main of link-pr from the return of LinkPRToIssues: print the report, exit.
LinkPRExit ==
    /\ scenario = "link-pr"
    /\ cmd.pc = "Link"
    /\ run[1].pc = "Done"
    /\ cmd' = [cmd EXCEPT !.pc = "Exited", !.exit = ExitStatus(run[1])]
    /\ UNCHANGED <<sub, scenario, prText, board, comments, run, trace>>

NextLinkPR == LinkPRGate \/ Next \/ LinkPRExit

SpecLinkPR == InitLinkPR /\ [][NextLinkPR]_vars

\* ------------------------------------------------ the scan-open-prs command

\* An open PR of the scanned repository: who opened it, and its title and
\* body (no reference, or "fixes #7").
OpenPRs ==
    [author : Authors \ {""},
     text : {<<>>, <<Mention("keyword", "", "", <<7>>)>>}]

\* The board the scan starts on: the first item in progress, the others in
\* the backlog.
ScanBoard == [i \in ItemSet |-> IF i = ItemAt(1) THEN "In Progress" ELSE "Backlog"]

\* scan-open-prs on one repository, with alice the one mapped user.
InitScan ==
    /\ scenario = "scan"
    /\ prText = <<>>
    /\ comments = [i \in ItemSet |-> 0]
    /\ trace = [p \in Procs |-> <<>>]
    /\ sub = NoSub
    /\ board = ScanBoard
    /\ \E prs \in SeqsUpTo(OpenPRs, MaxOpenPRs) :
          cmd = [NoCmd EXCEPT !.pc = "FetchPRs", !.prs = prs,
                              !.userMappings = LoadUserMappings("{alice}")]
    /\ \E d \in BOOLEAN :
          run = [p \in Procs |->
                   NewRun([DryRun |-> d, DuplicateSimilarity |-> DefaultDuplicateSimilarity])]

\* fetchOpenPRs returns Number, Title, Body and State of every open PR, or
\* an error, on which the repository is recorded and skipped.
ScanFetchPRs ==
    /\ scenario = "scan"
    /\ cmd.pc = "FetchPRs"
    /\ \E ok \in BOOLEAN :
          cmd' = IF ok
                 THEN [cmd EXCEPT !.pc = "NextPR", !.TotalPRsScanned = @ + Len(cmd.prs)]
                 ELSE [cmd EXCEPT !.pc = "Exited", !.exit = 0, !.fetchFailed = TRUE,
                                  !.prs = <<>>,
                                  !.Errors = Append(@, <<"Failed to fetch PRs", 0>>)]
    /\ UNCHANGED <<sub, scenario, prText, board, comments, run, trace>>

\* The loop over the PRs: call LinkPRToIssues for the next one, or print
\* the summary when none is left.
ScanNextPR ==
    /\ scenario = "scan"
    /\ cmd.pc = "NextPR"
    /\ IF cmd.prs = <<>>
       THEN /\ cmd' = [cmd EXCEPT !.pc = "Exited", !.exit = 0]
            /\ UNCHANGED <<prText, run, trace>>
       ELSE /\ cmd' = [cmd EXCEPT !.pc = "Link", !.prs = Tail(@),
                                  !.passed = Append(@, Head(cmd.prs))]
            /\ prText' = Head(cmd.prs).text
            /\ run' = [run EXCEPT ![1] = NewRun(run[1].cfg)]
            /\ trace' = [trace EXCEPT ![1] = <<>>]
    /\ UNCHANGED <<sub, scenario, board, comments>>

\* The loop body from the return of LinkPRToIssues: record its error, or
\* add its report to the scan report.
ScanAfterPR ==
    /\ scenario = "scan"
    /\ cmd.pc = "Link"
    /\ run[1].pc = "Done"
    /\ LET report == run[1].report
       IN  cmd' = IF run[1].err
                  THEN [cmd EXCEPT !.pc = "NextPR",
                                   !.Errors = Append(@, <<"Failed to process PR", 0>>)]
                  ELSE [cmd EXCEPT !.pc = "NextPR",
                                   !.TotalIssuesLinked =
                                       @ + report.IssuesLinkedDirect + report.IssueLinkedSemantic,
                                   !.TotalIssuesMoved = @ + report.IssuesMovedToPRReview,
                                   !.Errors = @ \o report.Errors]
    /\ UNCHANGED <<sub, scenario, prText, board, comments, run, trace>>

NextScan == ScanFetchPRs \/ ScanNextPR \/ Next \/ ScanAfterPR

SpecScan == InitScan /\ [][NextScan]_vars

\* ------------------------------------------------- concurrent invocations

\* Two invocations for the same PR at the same time, as two dispatches of
\* the same PR event start them: a PR text of at most one mention, one
\* candidate on the board.
InitConcurrent ==
    /\ scenario = "concurrent"
    /\ prText \in { t \in PRTexts : Len(t) <= 1 }
    /\ comments = [i \in ItemSet |-> 0]
    /\ trace = [p \in Procs |-> <<>>]
    /\ cmd = NoCmd
    /\ sub = NoSub
    /\ board = ScanBoard
    /\ \E d \in BOOLEAN :
          run = [p \in Procs |->
                   NewRun([DryRun |-> d, DuplicateSimilarity |-> DefaultDuplicateSimilarity])]

SpecConcurrent == InitConcurrent /\ [][Next]_vars

\* ------------------------------------------- one invocation in two orders

\* The invocation twice on the same board and with the same answers of the
\* board and the scorer: the extractor returns the references to each
\* invocation in an order of its own.
InitReorder ==
    /\ scenario = "reorder"
    /\ InitCommon
    /\ board \in [ItemSet -> ReplayStatuses]
    /\ cmd = [NoCmd EXCEPT !.pc = "First", !.board0 = board]
    /\ \E d \in BOOLEAN :
          run = [p \in Procs |->
                   NewRun([DryRun |-> d, DuplicateSimilarity |-> DefaultDuplicateSimilarity])]

\* Invocation 1 has returned: put the board back as it was and let
\* invocation 2 start.
SecondOrder ==
    /\ scenario = "reorder"
    /\ cmd.pc = "First"
    /\ run[1].pc = "Done"
    /\ board' = cmd.board0
    /\ comments' = [i \in ItemSet |-> 0]
    /\ cmd' = [cmd EXCEPT !.pc = "Second"]
    /\ UNCHANGED <<sub, scenario, prText, run, trace>>

NextReorder == Next \/ SecondOrder

SpecReorder == InitReorder /\ [][NextReorder]_vars

\* -------------------------------------------------- the invocation again

\* The invocation for the same PR a second time when the first has
\* returned, as the next event of the PR starts it: same title and body,
\* same configuration, the board as the first run left it, the board and
\* the scorer answering per issue as before.
InitRerun ==
    /\ scenario = "rerun"
    /\ InitCommon
    /\ cmd = NoCmd
    /\ board \in [ItemSet -> ReplayStatuses]
    /\ \E d \in BOOLEAN :
          run = [p \in Procs |->
                   NewRun([DryRun |-> d, DuplicateSimilarity |-> DefaultDuplicateSimilarity])]

SpecRerun == InitRerun /\ [][Next]_vars

\* ---------------------------------------------------- GetSubIssuesRecursive

GraphIssues == 1..MaxGraphIssues

\* The sub-issue graphs: every issue with the issues GitHub lists as its
\* sub-issues, itself and its ancestors among them.
SubIssueGraphs == [GraphIssues -> SUBSET GraphIssues]

\* The owner as the caller writes it; GitHub finds the repository under
\* either spelling and answers with its own.
OwnerSpellings == {"acme", "Acme"}

\* key := fmt.Sprintf("%s/%s#%d", owner, repo, number): the arguments as
\* they are, letter case included.
SubIssueKey(owner, repo, number) == <<owner, repo, number>>

\* Variant: no key counts as visited.
AlreadyVisitedNever(visited, key) == FALSE

\* visited[key]
AlreadyVisited(visited, key) == key \in visited

RECURSIVE Ascending(_)
Ascending(S) ==
    IF S = {} THEN <<>>
    ELSE LET m == CHOOSE x \in S : \A y \in S : x <= y
         IN  <<m>> \o Ascending(S \ {m})

\* query.Repository.Issue.SubIssues.Nodes for an issue, each node with the
\* owner and name of its repository as GitHub spells them.
SubIssueNodes(children, number) ==
    LET ns == Ascending(children[number])
    IN  [i \in 1..Len(ns) |-> <<"acme", "app", ns[i]>>]

\* Frames of fetchSubIssues beyond which the model does not follow the
\* recursion: more than there are keys.
MaxCallDepth == MaxGraphIssues + 2

InitSub ==
    /\ scenario = "subissues"
    /\ prText = <<>>
    /\ comments = [i \in ItemSet |-> 0]
    /\ trace = [p \in Procs |-> <<>>]
    /\ board = ScanBoard
    /\ cmd = NoCmd
    /\ run = [p \in Procs |->
                NewRun([DryRun |-> TRUE, DuplicateSimilarity |-> DefaultDuplicateSimilarity])]
    /\ \E g \in SubIssueGraphs, o \in OwnerSpellings, n \in GraphIssues :
          sub = [NoSub EXCEPT !.pc = "Call", !.children = g, !.arg = <<o, "app", n>>]

\* fetchSubIssues up to its loop: a visited key returns at once; otherwise
\* the key is marked and the sub-issues are queried, and a failed query
\* returns the error through every caller.  stack holds, per call in
\* progress, the nodes its loop has still to go through.
fetchSubIssues ==
    /\ sub.pc = "Call"
    /\ Len(sub.stack) < MaxCallDepth
    /\ LET key == SubIssueKey(sub.arg[1], sub.arg[2], sub.arg[3])
       IN  IF AlreadyVisited(sub.visited, key)
           THEN sub' = [sub EXCEPT !.pc = "Loop"]
           ELSE \E ok \in BOOLEAN :
                  LET s1 == [sub EXCEPT !.visited = @ \cup {key},
                                        !.queried = Append(@, key)]
                  IN  sub' = IF ok
                             THEN [s1 EXCEPT !.stack = <<SubIssueNodes(sub.children, sub.arg[3])>> \o @,
                                             !.pc = "Loop"]
                             ELSE [s1 EXCEPT !.stack = <<>>, !.err = TRUE, !.pc = "Done"]
    /\ UNCHANGED <<scenario, prText, board, comments, run, trace, cmd>>

\* One iteration of the loop over the nodes: append the sub-issue, then
\* call fetchSubIssues for it.
SubIssueLoop ==
    /\ sub.pc = "Loop"
    /\ sub.stack # <<>>
    /\ Head(sub.stack) # <<>>
    /\ LET node == Head(Head(sub.stack))
       IN  sub' = [sub EXCEPT !.allSubIssues = Append(@, node),
                              !.stack = <<Tail(Head(@))>> \o Tail(@),
                              !.arg = node,
                              !.pc = "Call"]
    /\ UNCHANGED <<scenario, prText, board, comments, run, trace, cmd>>

\* "return nil" of fetchSubIssues after its loop, to the loop of its caller
\* or, from the outermost call, to GetSubIssuesRecursive, which returns
\* allSubIssues.
SubIssueReturn ==
    /\ sub.pc = "Loop"
    /\ \/ /\ sub.stack = <<>>
          /\ sub' = [sub EXCEPT !.pc = "Done"]
       \/ /\ sub.stack # <<>>
          /\ Head(sub.stack) = <<>>
          /\ sub' = [sub EXCEPT !.stack = Tail(@)]
    /\ UNCHANGED <<scenario, prText, board, comments, run, trace, cmd>>

NextSub == fetchSubIssues \/ SubIssueLoop \/ SubIssueReturn

\* Every query returns, a result or an error, and the function has no wait
\* of its own.
SpecSub == InitSub /\ [][NextSub]_vars /\ WF_vars(NextSub)

\* ------------------------------------------------------- reading the trace

Events(p, op) == SelectSeq(trace[p], LAMBDA e : e.op = op)
OkEvents(p, op) == SelectSeq(trace[p], LAMBDA e : e.op = op /\ e.ok)
FailedEvents(p, op) == SelectSeq(trace[p], LAMBDA e : e.op = op /\ ~e.ok)
IssuesOf(events) == [i \in 1..Len(events) |-> events[i].issue]
Range(s) == { s[i] : i \in 1..Len(s) }

Done(p) == run[p].pc = "Done"
\* The Step 2 loop has gone through every reference.
Resolved(p) == run[p].pc \notin {"Extract", "Resolve"}
\* The issues the board reader confirmed.
ResolvedIssues(p) == Range(IssuesOf(OkEvents(p, "GetIssueByNumber")))
FetchAttempted(p) == Len(Events(p, "GetIssuesByStatuses")) > 0
ScorerCalled(p) == Len(Events(p, "CompareSimilarity")) > 0
Mutations(p) == Len(Events(p, "MoveToPRReview")) + Len(Events(p, "LinkPRToIssue"))
\* findBestSemanticMatch was called and has returned.
SelectionOver(p) ==
    /\ run[p].pc \notin {"Extract", "Resolve", "FetchCandidates", "Score"}
    /\ Len(run[p].issues) > 0
\* The scores of the candidates that were scored without an error.
Scored(p) == OkEvents(p, "CompareSimilarity")

\* ------------------------------------------------------------------ claims

\* C1: semantic inference (the candidate fetch, any scorer call) is attempted
\* only when the resolve loop is over and confirmed no reference, and a run
\* that confirmed none always attempts the candidate fetch, also when
\* references were extracted and every fetch of them failed.
C1_InferenceIffNothingResolved ==
    \A p \in Procs :
        /\ (FetchAttempted(p) \/ ScorerCalled(p))
              => (Resolved(p) /\ ResolvedIssues(p) = {})
        /\ ScorerCalled(p) => FetchAttempted(p)
        /\ (Done(p) /\ ResolvedIssues(p) = {}) => Len(Events(p, "GetIssuesByStatuses")) = 1

\* A finished run in which references were extracted, every fetch of them
\* failed, and the scorer was called.
C1_Witness ==
    \E p \in Procs :
        /\ Done(p)
        /\ run[p].report.DirectReferencesFound > 0
        /\ ResolvedIssues(p) = {}
        /\ ScorerCalled(p)

\* C2: a dry run makes no MoveToPRReview and no LinkPRToIssue call, leaves
\* every item's status and comments as they were, and reports
\* IssuesMovedToPRReview = 0.
C2_DryRunMutatesNothing ==
    \A p \in Procs :
        run[p].cfg.DryRun =>
            /\ Mutations(p) = 0
            /\ run[p].report.IssuesMovedToPRReview = 0
            /\ scenario = "single" =>
                  \A i \in ItemSet : board[i] # PRReview /\ comments[i] = 0

\* A finished dry run that identified an issue it would move.
C2_Witness ==
    \E p \in Procs :
        /\ Done(p)
        /\ run[p].cfg.DryRun
        /\ Len(Events(p, "WouldMove")) > 0

\* C3: when the dry run and the run without dry-run that follows it have both
\* returned, they resolved the same set of direct issues, selected the same
\* semantic match (or none), return the same error or none, and report equal
\* DirectReferencesFound, IssuesLinkedDirect, SemanticMatchFound and
\* IssueLinkedSemantic.
C3_DryRunSameDecisions ==
    (scenario = "replay" /\ Done(1) /\ Done(2)) =>
        /\ Range(run[1].matchedIssues) = Range(run[2].matchedIssues)
        /\ run[1].semanticMatch = run[2].semanticMatch
        /\ run[1].err = run[2].err
        /\ run[1].report.DirectReferencesFound = run[2].report.DirectReferencesFound
        /\ run[1].report.IssuesLinkedDirect = run[2].report.IssuesLinkedDirect
        /\ run[1].report.SemanticMatchFound = run[2].report.SemanticMatchFound
        /\ run[1].report.IssueLinkedSemantic = run[2].report.IssueLinkedSemantic

\* Both runs have returned, a semantic match was selected, and the second run
\* moved it.
C3_Witness ==
    /\ scenario = "replay" /\ Done(1) /\ Done(2)
    /\ run[1].cfg.DryRun /\ ~run[2].cfg.DryRun
    /\ run[1].report.SemanticMatchFound
    /\ run[2].report.IssuesMovedToPRReview = 1

\* C4: the candidate findBestSemanticMatch holds as its best, and the one
\* LinkPRToIssues takes from it, was scored at or above the threshold.
C4_NeverBelowThreshold ==
    \A p \in Procs :
        \A m \in Range(run[p].bestMatch) \cup Range(run[p].semanticMatch) :
            \E i \in DOMAIN Scored(p) :
                /\ Scored(p)[i].issue = m
                /\ Scored(p)[i].val >= run[p].cfg.DuplicateSimilarity

\* The selection is over, the highest-scoring candidate scored above zero
\* and below the threshold, and nothing was returned.
C4_Witness ==
    \E p \in Procs :
        /\ SelectionOver(p)
        /\ run[p].bestMatch = <<>>
        /\ \E i \in DOMAIN Scored(p) :
              /\ Scored(p)[i].val > 0
              /\ Scored(p)[i].val < run[p].cfg.DuplicateSimilarity

\* The highest score among the candidates scored without an error (0 when
\* there is none).
RECURSIVE MaxScore(_)
MaxScore(events) ==
    IF Len(events) = 0 THEN 0
    ELSE LET m == MaxScore(Tail(events))
         IN  IF Head(events).val > m THEN Head(events).val ELSE m

\* Some candidate was scored at or above the threshold.
MetThreshold(p) ==
    \E i \in DOMAIN Scored(p) : Scored(p)[i].val >= run[p].cfg.DuplicateSimilarity

\* C5: when findBestSemanticMatch has returned, it returned a match if and
\* only if a successfully scored candidate has a score greater than or equal
\* to the threshold.
C5_MatchIffThresholdMet ==
    \A p \in Procs :
        SelectionOver(p) => ((run[p].bestMatch # <<>>) <=> MetThreshold(p))

\* The candidates that share the highest score, in iteration order.
TopScored(p) == SelectSeq(Scored(p), LAMBDA e : e.val = MaxScore(Scored(p)))

\* C6: when findBestSemanticMatch has returned, several candidates share the
\* highest score and that score meets the threshold, the match is the first
\* of them in iteration order.
C6_TieGoesToFirst ==
    \A p \in Procs :
        (SelectionOver(p) /\ Len(TopScored(p)) >= 2
                /\ MaxScore(Scored(p)) >= run[p].cfg.DuplicateSimilarity) =>
            run[p].bestMatch = <<TopScored(p)[1].issue>>

\* C7: an issue is matched on the semantic path only if its similarity is at
\* least the documented 0.95, whatever the system-wide duplicate-similarity
\* configuration is.
C7_MatchOnlyAtDocumentedThreshold ==
    \A p \in Procs :
        \A m \in Range(run[p].semanticMatch) :
            \E i \in DOMAIN Scored(p) :
                Scored(p)[i].issue = m /\ Scored(p)[i].val >= DocumentedPRThreshold

\* C8: in a run without dry-run that resolved direct issues, the status moves
\* attempted so far are the resolved issues in order, one attempt each; the
\* moved count is the number of successful moves and the report holds one
\* error string per failed move; when the run has returned every resolved
\* issue has had its attempt.
C8_DirectMovesIsolated ==
    \A p \in Procs :
        (~run[p].cfg.DryRun /\ Resolved(p) /\ ResolvedIssues(p) # {}) =>
            LET moves == Events(p, "MoveToPRReview")
                failed == FailedEvents(p, "MoveToPRReview")
            IN  /\ IssuesOf(moves) = SubSeq(run[p].matchedIssues, 1, Len(moves))
                /\ Range(run[p].matchedIssues) = ResolvedIssues(p)
                /\ Len(run[p].matchedIssues) = Cardinality(ResolvedIssues(p))
                /\ Done(p) => Len(moves) = Len(run[p].matchedIssues)
                /\ run[p].report.IssuesMovedToPRReview = Len(OkEvents(p, "MoveToPRReview"))
                /\ run[p].report.Errors =
                      [i \in 1..Len(failed) |->
                          <<"Failed to move issue to PR Review", failed[i].issue[3]>>]

\* Two direct matches: the first move failed, the second succeeded, and the
\* run returned one error string and IssuesMovedToPRReview = 1.
C8_Witness ==
    \E p \in Procs :
        LET moves == Events(p, "MoveToPRReview")
        IN  /\ Done(p)
            /\ Len(moves) = 2
            /\ ~moves[1].ok /\ moves[2].ok
            /\ run[p].report.IssuesMovedToPRReview = 1
            /\ Len(run[p].report.Errors) = 1

\* The semantic match was moved and the comment on it then failed.
MovedThenLinkFailed(p) ==
    /\ run[p].semanticMatch # <<>>
    /\ Len(OkEvents(p, "MoveToPRReview")) = 1
    /\ Len(FailedEvents(p, "LinkPRToIssue")) = 1

\* C9: when the comment on the semantic match fails after its status move
\* succeeded, the issue is in PR Review, IssuesMovedToPRReview is 1, the
\* report holds the one error string of the comment, and the run returns the
\* report without an error.
C9_LinkFailureKeepsMove ==
    \A p \in Procs :
        (scenario = "single" /\ MovedThenLinkFailed(p)) =>
            /\ Done(p)
            /\ ~run[p].err
            /\ board[run[p].semanticMatch[1]] = PRReview
            /\ run[p].report.IssuesMovedToPRReview = 1
            /\ run[p].report.Errors =
                  <<(<<"Failed to link PR to issue", run[p].semanticMatch[1][3]>>)>>

C9_Witness == \E p \in Procs : scenario = "single" /\ MovedThenLinkFailed(p)

\* C10: a run returns an error exactly when its candidate fetch failed, and
\* such a run has returned at once: no scorer call and no board mutation.
C10_OnlyCandidateFetchIsFatal ==
    \A p \in Procs :
        /\ run[p].err <=> Len(FailedEvents(p, "GetIssuesByStatuses")) > 0
        /\ run[p].err =>
              /\ Done(p)
              /\ ~ScorerCalled(p)
              /\ Mutations(p) = 0
              /\ trace[p][Len(trace[p])].op = "GetIssuesByStatuses"

\* A run without dry-run whose references all failed to resolve and whose
\* candidate fetch failed.
C10_Witness ==
    \E p \in Procs :
        /\ run[p].err
        /\ ~run[p].cfg.DryRun
        /\ Len(FailedEvents(p, "GetIssueByNumber")) > 0

\* The board issue a reference names.
RefIssue(ref) == <<ToLower(ref.Owner), ToLower(ref.Repo), ref.Number>>

\* The error strings that mutations leave in the report: one per failed
\* status move and one per failed comment, in call order.
MutationErrors(p) ==
    LET failed == SelectSeq(trace[p],
                            LAMBDA e : e.op \in {"MoveToPRReview", "LinkPRToIssue"} /\ ~e.ok)
    IN  [i \in 1..Len(failed) |->
            <<(IF failed[i].op = "MoveToPRReview" THEN "Failed to move issue to PR Review"
               ELSE "Failed to link PR to issue"), failed[i].issue[3]>>]

\* C11: a reference whose fetch fails is excluded and leaves no error string,
\* and the fetches go on: the references fetched so far are the extracted
\* ones in order, all of them once the loop is over; the matched issues are
\* exactly those whose fetch succeeded; the report's errors are those of
\* mutations only.
C11_FetchFailureIsSkipped ==
    \A p \in Procs :
        LET gets == Events(p, "GetIssueByNumber")
        IN  /\ IssuesOf(gets) = [i \in 1..Len(gets) |-> RefIssue(run[p].refs[i])]
            /\ Resolved(p) => Len(gets) = Len(run[p].refs)
            /\ run[p].matchedIssues = IssuesOf(OkEvents(p, "GetIssueByNumber"))
            /\ run[p].report.IssuesLinkedDirect = Len(OkEvents(p, "GetIssueByNumber"))
            /\ run[p].report.Errors = MutationErrors(p)
            /\ Len(FailedEvents(p, "GetIssueByNumber")) > 0 =>
                  (run[p].err <=> Len(FailedEvents(p, "GetIssuesByStatuses")) > 0)

\* Two references: the fetch of the first failed, the second was fetched and
\* is on the board.
C11_Witness ==
    \E p \in Procs :
        LET gets == Events(p, "GetIssueByNumber")
        IN  /\ Len(gets) = 2
            /\ ~gets[1].ok /\ gets[2].ok
            /\ run[p].matchedIssues = <<gets[2].issue>>
            /\ run[p].report.Errors = <<>>

\* C12: a scorer error skips that candidate only: the candidates scored so
\* far are the fetched ones in order, all of them once the selection is
\* over; a candidate whose scoring failed is never the match; the run returns
\* no error for it and the report's errors are those of mutations only.
C12_ScorerFailureIsSkipped ==
    \A p \in Procs :
        LET calls == Events(p, "CompareSimilarity")
        IN  /\ IssuesOf(calls) = SubSeq(run[p].issues, 1, Len(calls))
            /\ SelectionOver(p) => Len(calls) = Len(run[p].issues)
            /\ \A i \in DOMAIN calls :
                  ~calls[i].ok => <<calls[i].issue>> \notin {run[p].bestMatch, run[p].semanticMatch}
            /\ Len(calls) > 0 => ~run[p].err
            /\ run[p].report.Errors = MutationErrors(p)

\* The scoring of the first candidate failed, the second was scored and
\* became the match.
C12_Witness ==
    \E p \in Procs :
        LET calls == Events(p, "CompareSimilarity")
        IN  /\ SelectionOver(p)
            /\ Len(calls) = 2
            /\ ~calls[1].ok /\ calls[2].ok
            /\ run[p].semanticMatch = <<calls[2].issue>>

\* ParseIssueReferences has returned to invocation p.
Parsed(p) == run[p].pc # "Extract"

\* The positions of the references with key k in the slice returned.
RefsWithKey(p, k) == { j \in DOMAIN run[p].refs : RefIssue(run[p].refs[j]) = k }

\* The entry the first strategy matching mention m makes for it.
EntryOf(m) ==
    IF m.form \in {"keyword", "simple"}
    THEN IssueReference(PROwner, PRRepo, DigitsValue(StripZeros(m.digits), 0),
                        m.form = "keyword")
    ELSE IssueReference(m.owner, m.repo, DigitsValue(StripZeros(m.digits), 0), FALSE)

\* The positions in the text of the mentions whose number fits an int.
WellFormed(text) == { i \in DOMAIN text : text[i].digits # OverflowDigits }

\* The case-insensitive keys the well-formed mentions of a text name.
KeysOf(text) == { RefIssue(EntryOf(text[i])) : i \in WellFormed(text) }

\* The mention that claims key k: of the earliest strategy, and the earliest
\* in the text for that strategy.
Claimant(text, k) ==
    LET ms == { i \in WellFormed(text) : RefIssue(EntryOf(text[i])) = k }
    IN  CHOOSE i \in ms :
            \A j \in ms :
                \/ FirstStrategy(text[i]) < FirstStrategy(text[j])
                \/ FirstStrategy(text[i]) = FirstStrategy(text[j]) /\ i <= j

\* C13: a key that the keyword strategy produces has exactly one reference
\* in the result, and it is the keyword strategy's entry (the default owner
\* and repository, IsExplicit true), whatever other strategy produces the
\* key as well.
C13_KeywordEntryIsKept ==
    \A p \in Procs :
        Parsed(p) =>
            \A i \in WellFormed(prText) :
                prText[i].form = "keyword" =>
                    LET at == RefsWithKey(p, RefIssue(EntryOf(prText[i])))
                    IN  /\ Cardinality(at) = 1
                        /\ \A j \in at : run[p].refs[j] = EntryOf(prText[i])

\* "fixes #7" together with the same issue written as a cross-repo
\* reference, as a URL or bare: one explicit reference comes back.
C13_Witness ==
    /\ Parsed(1)
    /\ \E i, j \in DOMAIN prText :
          /\ prText[i] = Mention("keyword", "", "", <<7>>)
          /\ prText[j].form # "keyword"
          /\ j \in WellFormed(prText)
          /\ RefIssue(EntryOf(prText[j])) = RefIssue(EntryOf(prText[i]))
    /\ Len(run[1].refs) = 1
    /\ run[1].refs[1].IsExplicit

\* C14: the result holds one reference for each case-insensitive key that a
\* well-formed mention names and none besides, each the entry of the first
\* strategy that claimed the key; the same number under another owner or
\* repository is another key.
C14_OneReferencePerKey ==
    \A p \in Procs :
        Parsed(p) =>
            /\ \A k \in KeysOf(prText) : Cardinality(RefsWithKey(p, k)) = 1
            /\ \A j \in DOMAIN run[p].refs :
                  /\ RefIssue(run[p].refs[j]) \in KeysOf(prText)
                  /\ run[p].refs[j] = EntryOf(prText[Claimant(prText, RefIssue(run[p].refs[j]))])
            /\ Len(run[p].refs) = Cardinality(KeysOf(prText))
            /\ run[p].report.DirectReferencesFound = Cardinality(KeysOf(prText))

\* Three mentions of number 7: two that differ only in the case of the owner
\* collapse to the first claimant, the one of another repository stays.
C14_Witness ==
    /\ Parsed(1)
    /\ \E i, j, k \in DOMAIN prText :
          /\ prText[i] = Mention("cross", "Acme", "app", <<7>>)
          /\ prText[j] \in {Mention("simple", "", "", <<7>>), Mention("url", "acme", "app", <<7>>)}
          /\ prText[k].form \in {"cross", "url"} /\ ToLower(prText[k].owner) = "other"
    /\ Len(run[1].refs) = 2
    /\ \E a, b \in DOMAIN run[1].refs :
          /\ run[1].refs[a].Owner = "Acme" /\ run[1].refs[a].Number = 7
          /\ ToLower(run[1].refs[b].Owner) = "other" /\ run[1].refs[b].Number = 7

\* C15: every reference returned has a number of at least 1.
C15_NumbersArePositive ==
    \A p \in Procs :
        Parsed(p) => \A j \in DOMAIN run[p].refs : run[p].refs[j].Number >= 1

\* C16: a mention whose number overflows is dropped and nothing else is: the
\* result holds exactly the keys of the other mentions of the text, and the
\* invocation goes on without an error.
C16_OverflowIsDropped ==
    \A p \in Procs :
        (Parsed(p) /\ WellFormed(prText) # DOMAIN prText) =>
            /\ { RefIssue(run[p].refs[j]) : j \in DOMAIN run[p].refs } = KeysOf(prText)
            /\ Len(run[p].refs) = Cardinality(KeysOf(prText))
            /\ ~run[p].err
            /\ run[p].report.Errors = <<>>
            /\ run[p].pc = IF Len(run[p].refs) > 0 THEN "Resolve" ELSE "FetchCandidates"

\* An overflowing mention first, then two well-formed ones of different
\* keys: both come back.
C16_Witness ==
    /\ Parsed(1)
    /\ Len(prText) = 3
    /\ prText[1].digits = OverflowDigits
    /\ {2, 3} \subseteq WellFormed(prText)
    /\ Len(run[1].refs) = 2

\* C17: a run without dry-run that has returned, in which at least one
\* reference resolved and no status move failed, reports the number of
\* extracted references, as many direct links and as many moves as issues
\* resolved, no semantic match and no error, and has left every resolved
\* issue in PR Review.
C17_DirectPathReport ==
    \A p \in Procs :
        LET m == Len(OkEvents(p, "GetIssueByNumber"))
        IN  (/\ scenario = "single" /\ Done(p) /\ ~run[p].cfg.DryRun
             /\ m >= 1
             /\ Len(FailedEvents(p, "MoveToPRReview")) = 0) =>
                /\ run[p].report.DirectReferencesFound = Cardinality(KeysOf(prText))
                /\ run[p].report.IssuesLinkedDirect = m
                /\ run[p].report.IssuesMovedToPRReview = m
                /\ ~run[p].report.SemanticMatchFound
                /\ run[p].report.IssueLinkedSemantic = 0
                /\ \A i \in ResolvedIssues(p) : board[i] = PRReview
                /\ IssuesOf(Events(p, "MoveToPRReview")) = run[p].matchedIssues

\* Two references extracted, one of them resolved and moved.
C17_Witness ==
    \E p \in Procs :
        /\ scenario = "single" /\ Done(p) /\ ~run[p].cfg.DryRun
        /\ Len(run[p].refs) = 2
        /\ Len(OkEvents(p, "GetIssueByNumber")) = 1
        /\ Len(FailedEvents(p, "MoveToPRReview")) = 0
        /\ run[p].report.IssuesMovedToPRReview = 1

\* C18: a run without dry-run that has returned without an error, in which
\* no reference resolved and a scored candidate meets the threshold, reports
\* SemanticMatchFound and IssueLinkedSemantic = 1, and its mutations are one
\* status move and then one comment, both on the selected candidate.
C18_SemanticPathApplied ==
    \A p \in Procs :
        (/\ Done(p) /\ ~run[p].cfg.DryRun
         /\ Len(OkEvents(p, "GetIssueByNumber")) = 0
         /\ MetThreshold(p)) =>
            /\ run[p].report.SemanticMatchFound
            /\ run[p].report.IssueLinkedSemantic = 1
            /\ run[p].semanticMatch # <<>>
            /\ LET n == Len(trace[p])
               IN  /\ Mutations(p) = 2
                   /\ trace[p][n - 1].op = "MoveToPRReview"
                   /\ trace[p][n].op = "LinkPRToIssue"
                   /\ trace[p][n - 1].issue = run[p].semanticMatch[1]
                   /\ trace[p][n].issue = run[p].semanticMatch[1]

\* The issues the extracted references of a run name.
ReferencedIssues(p) == { RefIssue(run[p].refs[j]) : j \in DOMAIN run[p].refs }

\* C19 as stated: a run makes at most one comment, on its semantic match,
\* and never on an issue that a reference of the PR text names.
C19_NoCommentOnReferencedIssue ==
    \A p \in Procs :
        LET links == Events(p, "LinkPRToIssue")
        IN  /\ Len(links) <= 1
            /\ \A i \in DOMAIN links :
                  /\ run[p].semanticMatch = <<links[i].issue>>
                  /\ links[i].issue \notin ReferencedIssues(p)

\* The comments that the calls of invocation p created on issue i.
CommentsCreated(p, i) ==
    Len(SelectSeq(OkEvents(p, "LinkPRToIssue"), LAMBDA e : e.issue = i))

\* C19, amended: a run makes at most one comment, on its semantic match,
\* and never on an issue that resolved as a direct reference; the board
\* holds the comments the calls created and no other.
C19_CommentOnlyOnSemanticMatch ==
    \A p \in Procs :
        LET links == Events(p, "LinkPRToIssue")
        IN  /\ Len(links) <= 1
            /\ \A i \in DOMAIN links :
                  /\ run[p].semanticMatch = <<links[i].issue>>
                  /\ links[i].issue \notin ResolvedIssues(p)
            /\ \A i \in ItemSet : comments[i] = CommentsCreated(1, i) + CommentsCreated(2, i)

\* A run whose one reference failed to resolve and that commented on its
\* semantic match, the very issue the reference names.
C19_Witness ==
    \E p \in Procs :
        /\ Done(p) /\ Len(OkEvents(p, "LinkPRToIssue")) = 1
        /\ run[p].matchedIssues = <<>>
        /\ run[p].semanticMatch[1] \in ReferencedIssues(p)
        /\ comments[run[p].semanticMatch[1]] = 1

\* C20: in every step, no counter of a report decreases, SemanticMatchFound
\* does not go from true to false, and the error list keeps what it held
\* and grows only at its end.
C20_ReportOnlyGrows ==
    [][\A p \in Procs :
          LET old == run[p].report
              new == run'[p].report
          IN  /\ new.DirectReferencesFound >= old.DirectReferencesFound
              /\ new.IssuesLinkedDirect >= old.IssuesLinkedDirect
              /\ new.IssueLinkedSemantic >= old.IssueLinkedSemantic
              /\ new.IssuesMovedToPRReview >= old.IssuesMovedToPRReview
              /\ old.SemanticMatchFound => new.SemanticMatchFound
              /\ Len(new.Errors) >= Len(old.Errors)
              /\ SubSeq(new.Errors, 1, Len(old.Errors)) = old.Errors]_vars

\* A report that has grown in every way: two references counted, two issues
\* linked, one moved and one error string appended.
C20_Witness ==
    \E p \in Procs :
        /\ Done(p)
        /\ run[p].report.DirectReferencesFound = 2
        /\ run[p].report.IssuesLinkedDirect = 2
        /\ run[p].report.IssuesMovedToPRReview = 1
        /\ Len(run[p].report.Errors) = 1

\* C25: in the calls of a run, every scorer call that is followed by another
\* scorer call is followed by the pause first, whether it returned a score
\* or an error.
C25_PauseBetweenScorerCalls ==
    \A p \in Procs :
        \A i, j \in DOMAIN trace[p] :
            (i < j /\ trace[p][i].op = "CompareSimilarity"
                   /\ trace[p][j].op = "CompareSimilarity") =>
                \E k \in (i + 1)..(j - 1) :
                    /\ trace[p][k].op = "Sleep"
                    /\ trace[p][k].val = ScorePauseMs

\* C27: the report of a run that has returned, with or without the fatal
\* error, has no more direct links than references found, a semantic link
\* count of 1 with a semantic match and of 0 without, no direct link beside
\* a semantic match, and no more moves than links.
C27_ReportIsConsistent ==
    \A p \in Procs :
        Done(p) =>
            LET report == run[p].report
            IN  /\ report.IssuesLinkedDirect <= report.DirectReferencesFound
                /\ report.IssueLinkedSemantic \in {0, 1}
                /\ (report.IssueLinkedSemantic = 1) <=> report.SemanticMatchFound
                /\ report.SemanticMatchFound => report.IssuesLinkedDirect = 0
                /\ report.IssuesMovedToPRReview
                      <= report.IssuesLinkedDirect + report.IssueLinkedSemantic

\* A returned report with references found, none linked, and a semantic match
\* that was moved.
C27_Witness ==
    \E p \in Procs :
        /\ Done(p)
        /\ run[p].report.DirectReferencesFound = 2
        /\ run[p].report.SemanticMatchFound
        /\ run[p].report.IssuesMovedToPRReview = 1

\* C21: when link-pr has exited after calling LinkPRToIssues, its exit
\* status is non-zero exactly when LinkPRToIssues returned the fatal error.
C21_NonZeroExitOnlyOnFatalError ==
    (scenario = "link-pr" /\ cmd.pc = "Exited" /\ ~cmd.skipped) =>
        ((cmd.exit # 0) <=> run[1].err)

\* C22: for a PR whose author is not in USER_MAPPINGS, link-pr makes no call
\* to the board reader, the scorer or a board mutation, at any time.
C22_ExternalAuthorIsSkipped ==
    (scenario = "link-pr" /\ ~Found(cmd.userMappings, cmd.prAuthor)) =>
        /\ trace[1] = <<>>
        /\ \A i \in ItemSet : board[i] # PRReview /\ comments[i] = 0

\* C23: every PR that scan-open-prs hands to LinkPRToIssues was opened by a
\* user in USER_MAPPINGS.
C23_OnlyTeamPRsAreLinked ==
    scenario = "scan" =>
        \A i \in DOMAIN cmd.passed : Found(cmd.userMappings, cmd.passed[i].author)

\* The next step of invocation p, whichever it is.
Step(p) ==
    \/ Extract(p) \/ Resolve(p) \/ FetchCandidates(p) \/ Score(p)
    \/ MoveDirect(p) \/ MoveSemantic(p) \/ LinkSemantic(p) \/ DryRunLog(p)

\* C24: of two invocations for the same PR, neither ever waits for the
\* other: each can take its next step in every state until it has returned;
\* and every comment call that succeeds adds a comment, so the issue holds
\* as many comments as the two runs created.
C24_RunsAreNotExclusive ==
    scenario = "concurrent" =>
        /\ \A p \in Procs : ~Done(p) => ENABLED Step(p)
        /\ \A i \in ItemSet : comments[i] = CommentsCreated(1, i) + CommentsCreated(2, i)

\* Both runs had the same issue among their candidates, selected it, moved
\* it and commented on it: neither fetched after the other's move, and the
\* issue holds two comments for the one PR.
C24_Witness ==
    /\ scenario = "concurrent"
    /\ Done(1) /\ Done(2)
    /\ run[1].semanticMatch # <<>>
    /\ run[1].semanticMatch = run[2].semanticMatch
    /\ \A p \in Procs :
          /\ Len(OkEvents(p, "MoveToPRReview")) = 1
          /\ Len(OkEvents(p, "LinkPRToIssue")) = 1
    /\ comments[run[1].semanticMatch[1]] = 2
    /\ board[run[1].semanticMatch[1]] = PRReview

\* The issues a run moved to PR Review.
MovedIssues(p) == Range(IssuesOf(OkEvents(p, "MoveToPRReview")))

\* How often x occurs in the sequence s.
Count(s, x) == Cardinality({ i \in DOMAIN s : s[i] = x })

\* C26: two invocations on the same board and with the same answers per
\* issue, each with its own order of the references, return the same
\* counters and the same error (or none), have moved the same set of issues
\* and report the same error strings, each as often.
C26_OrderDoesNotMatter ==
    (scenario = "reorder" /\ Done(1) /\ Done(2)) =>
        LET a == run[1].report
            b == run[2].report
        IN  /\ a.DirectReferencesFound = b.DirectReferencesFound
            /\ a.IssuesLinkedDirect = b.IssuesLinkedDirect
            /\ a.SemanticMatchFound = b.SemanticMatchFound
            /\ a.IssueLinkedSemantic = b.IssueLinkedSemantic
            /\ a.IssuesMovedToPRReview = b.IssuesMovedToPRReview
            /\ run[1].err = run[2].err
            /\ MovedIssues(1) = MovedIssues(2)
            /\ \A i \in ItemSet : (board[i] = PRReview) <=> (i \in MovedIssues(1))
            /\ \A e \in Range(a.Errors) \cup Range(b.Errors) :
                  Count(a.Errors, e) = Count(b.Errors, e)

\* Two invocations that fetched the same two references in opposite orders,
\* resolved both and moved one of them.
C26_Witness ==
    /\ scenario = "reorder" /\ Done(1) /\ Done(2)
    /\ Len(run[1].refs) = 2
    /\ run[2].refs = <<run[1].refs[2], run[1].refs[1]>>
    /\ run[1].report.IssuesLinkedDirect = 2
    /\ run[1].report.IssuesMovedToPRReview = 1
    /\ Len(run[2].report.Errors) = 1

\* C28: when a run without dry-run whose moves and comments all succeeded
\* is followed by a second run for the same PR, the second run moves only
\* issues that the first run moved and comments only on issues that the
\* first run commented on.
C28_RerunIsIdempotent ==
    (/\ scenario = "rerun" /\ Done(1) /\ ~run[1].cfg.DryRun
     /\ Len(FailedEvents(1, "MoveToPRReview")) = 0
     /\ Len(FailedEvents(1, "LinkPRToIssue")) = 0) =>
        /\ Range(IssuesOf(Events(2, "MoveToPRReview"))) \subseteq MovedIssues(1)
        /\ Range(IssuesOf(Events(2, "LinkPRToIssue")))
              \subseteq Range(IssuesOf(OkEvents(1, "LinkPRToIssue")))

\* The calls of a run so far stay within one fetch per extracted reference,
\* one scorer call per candidate and one status move per matched issue.
WithinCallBudget(p) ==
    LET fetched == IssuesOf(Events(p, "GetIssueByNumber"))
        scored == IssuesOf(Events(p, "CompareSimilarity"))
        moved == IssuesOf(Events(p, "MoveToPRReview"))
        matched == run[p].matchedIssues \o run[p].semanticMatch
    IN  /\ Len(Events(p, "GetIssuesByStatuses")) <= 1
        /\ Len(fetched) <= Len(run[p].refs)
        /\ \A i \in Range(fetched) : Count(fetched, i) = 1
        /\ Len(scored) <= Len(run[p].issues)
        /\ \A i \in Range(scored) : Count(scored, i) = 1 /\ i \in Range(run[p].issues)
        /\ Len(moved) <= Len(matched)
        /\ \A i \in Range(moved) : Count(moved, i) = 1 /\ i \in Range(matched)

\* C29: a run whose external calls all return reaches Done, with the fatal
\* error exactly when the candidate fetch failed, and never makes more than
\* one fetch per reference, one scorer call per candidate and one status
\* move per matched issue.
C29_RunTerminatesWithinBudget ==
    /\ <>Done(1)
    /\ [](WithinCallBudget(1)
          /\ (Done(1) => (run[1].err <=> Len(FailedEvents(1, "GetIssuesByStatuses")) > 0)))

C29_Witness ==
    /\ Done(1) /\ ~run[1].err
    /\ Len(Events(1, "GetIssueByNumber")) = 2
    /\ Len(Events(1, "CompareSimilarity")) = 2
    /\ Len(Events(1, "MoveToPRReview")) = 1

\* C30: on every sub-issue graph, cycles included, GetSubIssuesRecursive
\* returns, and no key is queried for its sub-issues more than once: a call
\* for a key in the visited set returns without a query.
C30_SubIssuesTerminate ==
    /\ <>(sub.pc = "Done")
    /\ [](/\ \A k \in Range(sub.queried) : Count(sub.queried, k) = 1
          /\ Range(sub.queried) = sub.visited)

\* Issue 1 lists issue 2, which lists issue 1 and itself: two queries, three
\* sub-issues collected, two calls that return on the visited set.
C30_Witness ==
    /\ sub.pc = "Done" /\ ~sub.err
    /\ sub.children[1] = {2} /\ sub.children[2] = {1, 2}
    /\ sub.queried = <<<<"acme", "app", 1>>, <<"acme", "app", 2>>>>
    /\ Len(sub.allSubIssues) = 3

====
